---- MODULE Spec2Model ----
(***************************************************************************)
(* Budget Allocation Engine of ifa-s/budgeting-proj.                       *)
(*                                                                         *)
(* The ledger (backend/buckets/bucketmanager.py) keeps a dictionary of     *)
(* named buckets, each holding a percentage, and a total_budget.  The      *)
(* Command Interpreter (backend/command_translator.py) turns text lines    *)
(* into calls on one ledger.  The chat views                               *)
(* (budgeting_app/chat/views.py) serve browser sessions from one           *)
(* ChatSession object; `chat' holds it.                                    *)
(*                                                                         *)
(* Numbers.  Python floats are modelled as exact rationals <<n, d>> in     *)
(* lowest terms with d > 0.  The comparisons of the code (>, <, ==, abs)   *)
(* are the comparisons of those rationals; binary rounding error, which is *)
(* many orders of magnitude below the 0.01 tolerance of the code, is not   *)
(* modelled.                                                               *)
(***************************************************************************)
EXTENDS Integers, Sequences, FiniteSets, TLC

VARIABLES buckets, total_budget, last, steps, results, variant, chat

vars == <<buckets, total_budget, last, steps, results, variant, chat>>

----------------------------------------------------------------------------
(* Exact rational arithmetic standing for Python float arithmetic.         *)

Abs(i) == IF i < 0 THEN -i ELSE i

RECURSIVE GCD(_, _)
GCD(a, b) == IF b = 0 THEN a ELSE GCD(b, a % b)

R(n, d) ==
    LET s == IF d < 0 THEN -1 ELSE 1
        g == GCD(Abs(n), Abs(d))
    IN  <<(s * n) \div g, (s * d) \div g>>

Zero == <<0, 1>>
Hundred == <<100, 1>>
Tolerance == <<1, 100>>
TinyTolerance == <<1, 1000000>>

LCM(a, b) == (a \div GCD(a, b)) * b

RAdd(x, y) ==
    LET l == LCM(x[2], y[2])
    IN  R(x[1] * (l \div x[2]) + y[1] * (l \div y[2]), l)
RNeg(x) == <<-x[1], x[2]>>
RSub(x, y) == RAdd(x, RNeg(y))
RMul(x, y) ==
    LET g1 == GCD(Abs(x[1]), y[2])
        g2 == GCD(Abs(y[1]), x[2])
    IN  R((x[1] \div g1) * (y[1] \div g2), (x[2] \div g2) * (y[2] \div g1))
RInv(x) == IF x[1] < 0 THEN <<-x[2], -x[1]>> ELSE <<x[2], x[1]>>
RDiv(x, y) == RMul(x, RInv(y))
RLt(x, y) ==
    LET l == LCM(x[2], y[2])
    IN  x[1] * (l \div x[2]) < y[1] * (l \div y[2])
RLe(x, y) == ~RLt(y, x)
RGt(x, y) == RLt(y, x)
RAbs(x) == <<Abs(x[1]), x[2]>>
RMax(x, y) == IF RLt(x, y) THEN y ELSE x
RMin(x, y) == IF RLt(y, x) THEN y ELSE x

----------------------------------------------------------------------------
(* Bounds and input alphabets.                                             *)

MaxOps == 3

Names == {"free", "rent", "food"}

Pcts == {R(-50, 1), R(50, 1), Zero, R(1, 200), R(30, 1), R(70, 1), R(150, 1)}

Budgets == {R(-100, 1), Zero, R(10000, 1)}

Amounts == {R(-5000, 1), R(1, 1), R(2000, 1)}

----------------------------------------------------------------------------
(* BucketManager: the ledger is the pair (buckets, total_budget).  Every   *)
(* method is an operator from the dictionary before the call to the        *)
(* dictionary after it and the returned value; a raised ValueError is the  *)
(* returned value "ValueError".                                            *)

Has(b, name) == name \in DOMAIN b

Put(b, name, pct) == [k \in (DOMAIN b) \cup {name} |-> IF k = name THEN pct ELSE b[k]]

Del(b, name) == [k \in (DOMAIN b) \ {name} |-> b[k]]

FreshBuckets == [k \in {"free"} |-> Hundred]

RECURSIVE SumOver(_, _)
SumOver(b, S) ==
    IF S = {} THEN Zero
    ELSE LET k == CHOOSE x \in S : TRUE
         IN  RAdd(b[k], SumOver(b, S \ {k}))

get_total_percentage(b) == SumOver(b, DOMAIN b)

is_percentage_valid(b) == RLt(RAbs(RSub(get_total_percentage(b), Hundred)), Tolerance)

add_bucket_free_untouched(b, name, percentage) ==
    IF Has(b, name) THEN [b |-> b, ret |-> "ValueError"]
    ELSE IF Has(b, "free")
         THEN LET free_percentage == b["free"]
                  pct == IF RGt(percentage, free_percentage) THEN free_percentage ELSE percentage
              IN  IF free_percentage = Zero
                  THEN [b |-> b, ret |-> "False"]
                  ELSE [b |-> Put(b, name, pct), ret |-> "True"]
         ELSE [b |-> Put(b, name, percentage), ret |-> "True"]

add_bucket(b, name, percentage) ==
    IF Has(b, name) THEN [b |-> b, ret |-> "ValueError"]
    ELSE IF Has(b, "free")
         THEN LET free_percentage == b["free"]
                  pct == IF RGt(percentage, free_percentage) THEN free_percentage ELSE percentage
              IN  IF free_percentage = Zero
                  THEN [b |-> b, ret |-> "False"]
                  ELSE [b |-> Put(Put(b, "free", RSub(free_percentage, pct)), name, pct),
                        ret |-> "True"]
         ELSE IF RGt(RAdd(get_total_percentage(b), percentage), Hundred)
              THEN [b |-> b, ret |-> "False"]
              ELSE [b |-> Put(b, name, percentage), ret |-> "True"]

remove_bucket_deletes(b, name) ==
    IF ~Has(b, name) THEN [b |-> b, ret |-> "False"]
    ELSE [b |-> Del(b, name), ret |-> "True"]

remove_bucket_keeps(b, name) ==
    IF ~Has(b, name) THEN [b |-> b, ret |-> "False"]
    ELSE IF name = "free" THEN [b |-> b, ret |-> "False"]
    ELSE [b |-> Del(b, name), ret |-> "True"]

remove_bucket(b, name) ==
    IF ~Has(b, name) THEN [b |-> b, ret |-> "False"]
    ELSE IF name = "free" THEN [b |-> b, ret |-> "False"]
    ELSE LET removed_percentage == b[name]
             rest == Del(b, name)
         IN  IF Has(rest, "free")
             THEN [b |-> Put(rest, "free", RAdd(rest["free"], removed_percentage)),
                   ret |-> "True"]
             ELSE [b |-> Put(rest, "free", RSub(Hundred, get_total_percentage(rest))),
                   ret |-> "True"]

RevertFree_skipped(b, free_old_pct) == b

RevertFree(b, free_old_pct) == Put(b, "free", free_old_pct)

resize_bucket(b, name, new_percentage) ==
    IF ~Has(b, name) THEN [b |-> b, ret |-> "ValueError"]
    ELSE LET old_percentage == b[name]
             total_without_bucket == RSub(get_total_percentage(b), old_percentage)
         IN  IF RGt(RAdd(total_without_bucket, new_percentage), Hundred)
             THEN IF Has(b, "free") /\ RGt(b["free"], Zero)
                  THEN LET free_old_pct == b["free"]
                           zeroed == Put(b, "free", Zero)
                           total_without_bucket2 ==
                               RSub(get_total_percentage(zeroed), old_percentage)
                       IN  IF RGt(RAdd(total_without_bucket2, new_percentage), Hundred)
                           THEN [b |-> RevertFree(zeroed, free_old_pct), ret |-> "False"]
                           ELSE [b |-> Put(zeroed, name, new_percentage), ret |-> "True"]
                  ELSE [b |-> b, ret |-> "False"]
             ELSE [b |-> Put(b, name, new_percentage), ret |-> "True"]

BudgetUsable_nonzero(tb) == tb # Zero

BudgetUsable(tb) == ~RLe(tb, Zero)

ClampDollars_none(new_dollars) == new_dollars

ClampDollars(new_dollars) == IF RLt(new_dollars, Zero) THEN Zero ELSE new_dollars

NewPct(old_pct, amount, tb) ==
    LET current_dollars == RMul(RDiv(old_pct, Hundred), tb)
        new_dollars == ClampDollars(RAdd(current_dollars, amount))
    IN  RMul(RDiv(new_dollars, tb), Hundred)

FreeTargetRejected_never(proposed_total) == FALSE

FreeTargetRejected(proposed_total) == RGt(RAbs(RSub(proposed_total, Hundred)), Tolerance)

FreeUnderflow_strict(free_new) == RLt(free_new, Zero)

FreeUnderflow(free_new) == RLt(free_new, RNeg(Tolerance))

add_amount_to_bucket(b, tb, name, amount) ==
    IF ~Has(b, name) THEN [b |-> b, ret |-> "False"]
    ELSE IF ~BudgetUsable(tb) THEN [b |-> b, ret |-> "False"]
    ELSE LET old_pct == b[name]
             new_pct == NewPct(old_pct, amount, tb)
             total_without_bucket == RSub(get_total_percentage(b), old_pct)
             proposed_total == RAdd(total_without_bucket, new_pct)
         IN  IF name = "free"
             THEN IF FreeTargetRejected(proposed_total)
                  THEN [b |-> b, ret |-> "False"]
                  ELSE [b |-> Put(b, name, new_pct), ret |-> "True"]
             ELSE IF Has(b, "free")
             THEN LET free_old == b["free"]
                      delta_pct == RSub(new_pct, old_pct)
                      free_new == RSub(free_old, delta_pct)
                  IN  IF FreeUnderflow(free_new)
                      THEN [b |-> b, ret |-> "False"]
                      ELSE [b |-> Put(Put(b, name, new_pct), "free", RMax(free_new, Zero)),
                            ret |-> "True"]
             ELSE IF RGt(proposed_total, RAdd(Hundred, TinyTolerance))
                  THEN [b |-> b, ret |-> "False"]
                  ELSE [b |-> Put(b, name, new_pct), ret |-> "True"]

subtract_amount_from_bucket_adds(b, tb, name, amount) ==
    IF ~Has(b, name) THEN [b |-> b, ret |-> "False"]
    ELSE add_amount_to_bucket(b, tb, name, amount)

subtract_amount_from_bucket(b, tb, name, amount) ==
    IF ~Has(b, name) THEN [b |-> b, ret |-> "False"]
    ELSE add_amount_to_bucket(b, tb, name, RNeg(amount))

(* The factor that takes the non-rent buckets to (100 - rent_pct). *)
scaling_factor_of_total(rent_pct, other_total) ==
    RDiv(RSub(Hundred, rent_pct), RAdd(other_total, rent_pct))

scaling_factor(rent_pct, other_total) == RDiv(RSub(Hundred, rent_pct), other_total)

auto_resize_to_100_percent_rent_kept(b) ==
    IF DOMAIN b = {} THEN [b |-> b, ret |-> "False"]
    ELSE LET other_total == SumOver(b, (DOMAIN b) \ {"rent"})
             rent_pct == IF Has(b, "rent") THEN b["rent"] ELSE Zero
         IN  IF other_total = Zero
             THEN [b |-> b, ret |-> IF Has(b, "rent") THEN "True" ELSE "False"]
             ELSE [b |-> [k \in DOMAIN b |->
                            IF k = "rent" THEN b[k]
                            ELSE RMul(b[k], RDiv(RSub(Hundred, rent_pct), other_total))],
                   ret |-> "True"]

auto_resize_to_100_percent(b) ==
    IF DOMAIN b = {} THEN [b |-> b, ret |-> "False"]
    ELSE LET other_buckets == (DOMAIN b) \ {"rent"}
         IN  IF other_buckets = {} /\ Has(b, "rent") THEN [b |-> b, ret |-> "True"]
             ELSE LET rent_pct == IF Has(b, "rent") THEN b["rent"] ELSE Zero
                      other_total == SumOver(b, other_buckets)
                  IN  IF other_total = Zero
                      THEN IF Has(b, "rent")
                           THEN [b |-> Put(b, "rent", Hundred), ret |-> "True"]
                           ELSE [b |-> b, ret |-> "False"]
                      ELSE [b |-> [k \in DOMAIN b |->
                                     IF k = "rent" THEN b[k]
                                     ELSE RMul(b[k], scaling_factor(rent_pct, other_total))],
                            ret |-> "True"]

----------------------------------------------------------------------------
(* Direct calls of the public methods on one BucketManager.  `last' keeps  *)
(* the call just made, its result and the ledger before it.                *)

NoMsg == [mark |-> "", text |-> "", name |-> "", num |-> Zero]

(* The hosting process: ChatSession is one object per process, holding    *)
(* one user_client (None until the first request needs it).  `own' keeps, *)
(* for every browser session, the ledger its own last request left, or    *)
(* <<>> while the session has made no request.                            *)
SessionIds == {"s1", "s2"}

NoChat == [user_client |-> "None", own |-> [s \in SessionIds |-> <<>>]]

Call(op, name, arg, ret) ==
    [op |-> op, name |-> name, arg |-> arg, ret |-> ret,
     pre |-> buckets, pre_tb |-> total_budget, line |-> <<>>, msg |-> NoMsg,
     mid |-> buckets, ret2 |-> "None", block |-> <<>>, out |-> <<>>]

Init ==
    /\ buckets = FreshBuckets
    /\ total_budget \in Budgets
    /\ last = [op |-> "init", name |-> "", arg |-> Zero, ret |-> "True",
               pre |-> FreshBuckets, pre_tb |-> total_budget,
               line |-> <<>>, msg |-> NoMsg, mid |-> FreshBuckets, ret2 |-> "None",
               block |-> <<>>, out |-> <<>>]
    /\ steps = 0
    /\ results = <<>>
    /\ variant = "none"
    /\ chat = NoChat

Apply(op, name, arg, outcome) ==
    /\ steps < MaxOps
    /\ \E r \in {outcome} :
           /\ buckets' = r.b
           /\ last' = Call(op, name, arg, r.ret)
    /\ steps' = steps + 1
    /\ UNCHANGED <<total_budget, results, variant, chat>>

AddBucket ==
    \E name \in Names, p \in Pcts :
        Apply("add_bucket", name, p, add_bucket(buckets, name, p))

RemoveBucket ==
    \E name \in Names :
        Apply("remove_bucket", name, Zero, remove_bucket(buckets, name))

ResizeBucket ==
    \E name \in Names, p \in Pcts :
        Apply("resize_bucket", name, p, resize_bucket(buckets, name, p))

SetTotalBudget ==
    \E amount \in Budgets :
        /\ steps < MaxOps
        /\ total_budget' = amount
        /\ last' = Call("set_total_budget", "", amount, "None")
        /\ steps' = steps + 1
        /\ UNCHANGED <<buckets, results, variant, chat>>

AddAmountToBucket ==
    \E name \in Names, amount \in Amounts :
        Apply("add_amount_to_bucket", name, amount,
              add_amount_to_bucket(buckets, total_budget, name, amount))

SubtractAmountFromBucket ==
    \E name \in Names, amount \in Amounts :
        Apply("subtract_amount_from_bucket", name, amount,
              subtract_amount_from_bucket(buckets, total_budget, name, amount))

AutoResizeTo100Percent ==
    Apply("auto_resize_to_100_percent", "", Zero, auto_resize_to_100_percent(buckets))

Next ==
    \/ AddBucket
    \/ RemoveBucket
    \/ ResizeBucket
    \/ SetTotalBudget
    \/ AddAmountToBucket
    \/ SubtractAmountFromBucket
    \/ AutoResizeTo100Percent

Spec == Init /\ [][Next]_vars

NextStructural ==
    \/ AddBucket
    \/ RemoveBucket
    \/ ResizeBucket

SpecStructural == Init /\ [][NextStructural]_vars

(* Two calls made one right after the other by the same caller, with no    *)
(* call in between: `mid' is the ledger between them, `ret2' the second    *)
(* returned value.                                                         *)
ApplyTwo(op, name, arg, first, second) ==
    /\ buckets' = second.b
    /\ last' = [Call(op, name, arg, first.ret) EXCEPT !.mid = first.b, !.ret2 = second.ret]
    /\ steps' = steps + 1
    /\ UNCHANGED <<total_budget, results, variant, chat>>

AddThenSubtract ==
    /\ steps < MaxOps
    /\ \E name \in Names, amount \in Amounts :
          \E r1 \in {add_amount_to_bucket(buckets, total_budget, name, amount)} :
              \E r2 \in {subtract_amount_from_bucket(r1.b, total_budget, name, amount)} :
                  ApplyTwo("add_then_subtract", name, amount, r1, r2)

RemoveThenAdd ==
    /\ steps < MaxOps
    /\ \E name \in (DOMAIN buckets) \ {"free"} :
          \E r1 \in {remove_bucket(buckets, name)} :
              \E r2 \in {add_bucket(r1.b, name, buckets[name])} :
                  ApplyTwo("remove_then_add", name, buckets[name], r1, r2)

AutoResizeTwice ==
    /\ steps < MaxOps
    /\ \E r1 \in {auto_resize_to_100_percent(buckets)} :
          \E r2 \in {auto_resize_to_100_percent(r1.b)} :
              ApplyTwo("auto_resize_twice", "", Zero, r1, r2)

NextSeq ==
    \/ Next
    \/ AddThenSubtract
    \/ RemoveThenAdd
    \/ AutoResizeTwice

SpecSeq == Init /\ [][NextSeq]_vars

----------------------------------------------------------------------------
(* Command Interpreter, free-form variant (backend/command_translator.py). *)
(* A line of the input block is the sequence of its whitespace-separated   *)
(* tokens (what str.split() returns); the blank line is <<>>.  A token is  *)
(* a string; Chars gives its characters, on which float() works.           *)

MaxLines == 3

NameTokens == {"free", "rent", "food"}

NumTokens == {"0", "30", "150", "-50", "10000"}

Chars(t) ==
    CASE t = "0" -> <<"0">>
      [] t = "30" -> <<"3", "0">>
      [] t = "150" -> <<"1", "5", "0">>
      [] t = "120" -> <<"1", "2", "0">>
      [] t = "-50" -> <<"-", "5", "0">>
      [] t = "10000" -> <<"1", "0", "0", "0", "0">>
      [] t = "abc" -> <<"a", "b", "c">>
      [] t = "0.005" -> <<"0", ".", "0", "0", "5">>
      [] t = "free" -> <<"f", "r", "e", "e">>
      [] t = "rent" -> <<"r", "e", "n", "t">>
      [] t = "food" -> <<"f", "o", "o", "d">>
      [] t = "x" -> <<"x">>
      [] t = "10" -> <<"1", "0">>
      [] OTHER -> <<"_">>

Upper(t) == IF t = "add_bucket" THEN "ADD_BUCKET" ELSE t

Digits == {"0", "1", "2", "3", "4", "5", "6", "7", "8", "9"}

DigitVal(c) ==
    CASE c = "0" -> 0 [] c = "1" -> 1 [] c = "2" -> 2 [] c = "3" -> 3 [] c = "4" -> 4
      [] c = "5" -> 5 [] c = "6" -> 6 [] c = "7" -> 7 [] c = "8" -> 8 [] c = "9" -> 9

RECURSIVE DigitsVal(_)
DigitsVal(cs) ==
    IF cs = <<>> THEN 0
    ELSE 10 * DigitsVal(SubSeq(cs, 1, Len(cs) - 1)) + DigitVal(cs[Len(cs)])

RECURSIVE Pow10(_)
Pow10(n) == IF n = 0 THEN 1 ELSE 10 * Pow10(n - 1)

AllDigits(cs) == cs # <<>> /\ \A i \in 1..Len(cs) : cs[i] \in Digits

(* float(token) on decimal literals: [sign] digits [. digits].  The value  *)
(* is [ok |-> TRUE, val |-> rational], or ok = FALSE for the ValueError.   *)
FloatOf(cs) ==
    LET signed == cs # <<>> /\ cs[1] \in {"-", "+"}
        body == IF signed THEN Tail(cs) ELSE cs
        dots == {i \in 1..Len(body) : body[i] = "."}
        sgn == IF signed /\ cs[1] = "-" THEN -1 ELSE 1
    IN  IF dots = {}
        THEN IF AllDigits(body)
             THEN [ok |-> TRUE, val |-> R(sgn * DigitsVal(body), 1)]
             ELSE [ok |-> FALSE, val |-> Zero]
        ELSE LET i == CHOOSE j \in dots : TRUE
                 ip == SubSeq(body, 1, i - 1)
                 fp == SubSeq(body, i + 1, Len(body))
             IN  IF Cardinality(dots) = 1 /\ AllDigits(ip \o fp)
                    /\ \A j \in 1..Len(ip \o fp) : (ip \o fp)[j] \in Digits
                 THEN [ok |-> TRUE,
                       val |-> R(sgn * DigitsVal(ip \o fp), Pow10(Len(fp)))]
                 ELSE [ok |-> FALSE, val |-> Zero]

Float(t) == FloatOf(Chars(t))

parse_command(line) ==
    IF line = <<>> THEN [ok |-> FALSE, cmd_type |-> "", args |-> <<>>]
    ELSE [ok |-> TRUE, cmd_type |-> Upper(line[1]), args |-> Tail(line)]

Msg(mark, text, name, num) == [mark |-> mark, text |-> text, name |-> name, num |-> num]

Out(b, tb, msg) == [b |-> b, tb |-> tb, msg |-> msg]

(* The two except clauses that close execute_command: a ValueError is     *)
(* rendered "Invalid argument", any other Exception "Error executing       *)
(* command".  A message marked "raised" stands for an exception that no    *)
(* clause catches and that leaves execute_command.                         *)
Handle_value_error_only(b, tb, exc) ==
    IF exc = "ValueError" THEN Out(b, tb, Msg("fail", "Invalid argument", "", Zero))
    ELSE Out(b, tb, Msg("raised", exc, "", Zero))

Handle(b, tb, exc) ==
    IF exc = "ValueError" THEN Out(b, tb, Msg("fail", "Invalid argument", "", Zero))
    ELSE Out(b, tb, Msg("fail", "Error executing command", "", Zero))

IndexError(b, tb) == Handle(b, tb, "IndexError")

InvalidArgument(b, tb) == Handle(b, tb, "ValueError")

(* name = args[0] then float(args[1]): the IndexError of a missing         *)
(* argument or the ValueError of float() comes before any ledger call.     *)
NameNumberFault(args) ==
    IF Len(args) < 2 THEN "IndexError"
    ELSE IF ~Float(args[2]).ok THEN "ValueError"
    ELSE "none"

Fault(b, tb, fault) == Handle(b, tb, fault)

cmd_set_total_budget(b, tb, args) ==
    IF Len(args) < 1 THEN IndexError(b, tb)
    ELSE IF ~Float(args[1]).ok THEN InvalidArgument(b, tb)
    ELSE Out(b, Float(args[1]).val, Msg("ok", "Set total budget to", "", Float(args[1]).val))

cmd_add_bucket(b, tb, args) ==
    IF NameNumberFault(args) # "none" THEN Fault(b, tb, NameNumberFault(args))
    ELSE LET name == args[1]
             percentage == Float(args[2]).val
         IN  IF Len(args) > 2 /\ ~Float(args[3]).ok THEN InvalidArgument(b, tb)
             ELSE IF Has(b, name)
             THEN LET r == resize_bucket(b, name, percentage)
                  IN  IF r.ret = "True"
                      THEN Out(r.b, tb, Msg("ok", "Resized existing bucket", name, percentage))
                      ELSE Out(r.b, tb, Msg("fail", "Failed to resize bucket", name, Zero))
             ELSE LET r == add_bucket(b, name, percentage)
                  IN  IF r.ret = "True"
                      THEN Out(r.b, tb, Msg("ok", "Added bucket", name, percentage))
                      ELSE Out(r.b, tb, Msg("fail", "Failed to add bucket", name, Zero))

cmd_remove_bucket(b, tb, args) ==
    IF Len(args) < 1 THEN IndexError(b, tb)
    ELSE LET r == remove_bucket(b, args[1])
         IN  IF r.ret = "True"
             THEN Out(r.b, tb, Msg("ok", "Removed bucket", args[1], Zero))
             ELSE Out(r.b, tb, Msg("fail", "Failed to remove bucket", args[1], Zero))

cmd_resize_bucket(b, tb, args) ==
    IF NameNumberFault(args) # "none" THEN Fault(b, tb, NameNumberFault(args))
    ELSE LET name == args[1]
             new_percentage == Float(args[2]).val
             r == resize_bucket(b, name, new_percentage)
         IN  IF r.ret = "ValueError" THEN InvalidArgument(r.b, tb)
             ELSE IF r.ret = "True"
             THEN Out(r.b, tb, Msg("ok", "Resized bucket", name, new_percentage))
             ELSE Out(r.b, tb, Msg("fail", "Failed to resize bucket", name, Zero))

(* get_bucket(name) is None: create the bucket at 0% first; add_bucket     *)
(* cannot raise here, and its returned value is not inspected.             *)
AutoCreate(b, name) == IF Has(b, name) THEN b ELSE add_bucket(b, name, Zero).b

cmd_add_amount(b, tb, args) ==
    IF NameNumberFault(args) # "none" THEN Fault(b, tb, NameNumberFault(args))
    ELSE LET name == args[1]
             amount == Float(args[2]).val
             created == ~Has(b, name)
             b1 == AutoCreate(b, name)
             r == add_amount_to_bucket(b1, tb, name, amount)
         IN  IF r.ret = "True"
             THEN IF created
                  THEN Out(r.b, tb, Msg("ok", "Created bucket at 0.00% and added", name, amount))
                  ELSE Out(r.b, tb, Msg("ok", "Added to bucket", name, amount))
             ELSE Out(r.b, tb, Msg("fail", "Failed to add amount to bucket", name, Zero))

cmd_subtract_amount(b, tb, args) ==
    IF NameNumberFault(args) # "none" THEN Fault(b, tb, NameNumberFault(args))
    ELSE LET name == args[1]
             amount == Float(args[2]).val
             created == ~Has(b, name)
             b1 == AutoCreate(b, name)
             r == subtract_amount_from_bucket(b1, tb, name, amount)
         IN  IF r.ret = "True"
             THEN IF created
                  THEN Out(r.b, tb,
                           Msg("ok", "Created bucket at 0.00% and subtracted", name, amount))
                  ELSE Out(r.b, tb, Msg("ok", "Subtracted from bucket", name, amount))
             ELSE Out(r.b, tb, Msg("fail", "Failed to subtract amount from bucket", name, Zero))

(* BucketManager has no rebalance_buckets: the AttributeError is caught by *)
(* `except Exception'.                                                     *)
cmd_rebalance(b, tb, args) == Handle(b, tb, "AttributeError")

cmd_auto_resize(b, tb, args) ==
    LET r == auto_resize_to_100_percent(b)
    IN  IF r.ret = "True"
        THEN Out(r.b, tb, Msg("ok", "Auto-resized all buckets to total 100%", "", Zero))
        ELSE Out(r.b, tb, Msg("fail", "Failed to auto-resize", "", Zero))

(* No branch matched the command type: the return after the if chain.     *)
UnknownCommand_raises(b, tb) == Out(b, tb, Msg("raised", "Unknown command type", "", Zero))

UnknownCommand(b, tb) == Out(b, tb, Msg("", "Unknown command type", "", Zero))

execute_command(b, tb, line) ==
    LET parsed == parse_command(line)
        t == parsed.cmd_type
        args == parsed.args
    IN  IF ~parsed.ok THEN Out(b, tb, Msg("", "Invalid command", "", Zero))
        ELSE CASE t = "SET_TOTAL_BUDGET" -> cmd_set_total_budget(b, tb, args)
               [] t = "ADD_BUCKET" -> cmd_add_bucket(b, tb, args)
               [] t = "REMOVE_BUCKET" -> cmd_remove_bucket(b, tb, args)
               [] t = "RESIZE_BUCKET" -> cmd_resize_bucket(b, tb, args)
               [] t = "ADD_AMOUNT" -> cmd_add_amount(b, tb, args)
               [] t = "SUBTRACT_AMOUNT" -> cmd_subtract_amount(b, tb, args)
               [] t = "REBALANCE" -> cmd_rebalance(b, tb, args)
               [] t = "AUTO_RESIZE_TO_100" -> cmd_auto_resize(b, tb, args)
               [] OTHER -> UnknownCommand(b, tb)

----------------------------------------------------------------------------
(* Command Interpreter, fixed-grammar variant (src/command_translator.py). *)
(* parse_command tries the patterns in dictionary order with re.match and  *)
(* re.IGNORECASE, so a pattern has to match a prefix of the line only.  A  *)
(* group followed by \s+ must cover its whole token; the last group of a   *)
(* pattern takes the longest matching prefix of its token.                 *)

Tokens == {"0", "10", "30", "120", "150", "-50", "10000", "abc", "0.005",
           "free", "rent", "food", "x"}

Text(cs) == CHOOSE t \in Tokens : Chars(t) = cs

Letters ==
    {"a", "b", "c", "d", "e", "f", "g", "h", "i", "j", "k", "l", "m",
     "n", "o", "p", "q", "r", "s", "t", "u", "v", "w", "x", "y", "z",
     "A", "B", "C", "D", "E", "F", "G", "H", "I", "J", "K", "L", "M",
     "N", "O", "P", "Q", "R", "S", "T", "U", "V", "W", "X", "Y", "Z"}

WordChars == Letters \cup Digits \cup {"_"}

RECURSIVE PrefixLen(_, _)
PrefixLen(cs, S) ==
    IF cs = <<>> \/ cs[1] \notin S THEN 0 ELSE 1 + PrefixLen(Tail(cs), S)

(* Length of the match of \d+(?:\.\d+)? at the start of cs, 0 for none.   *)
NumberLen(cs) ==
    LET n == PrefixLen(cs, Digits)
        rest == SubSeq(cs, n + 1, Len(cs))
        m == IF rest # <<>> /\ rest[1] = "." THEN PrefixLen(Tail(rest), Digits) ELSE 0
    IN  IF n = 0 THEN 0 ELSE IF m > 0 THEN n + 1 + m ELSE n

(* (\w+) and (\d+(?:\.\d+)?) on one token; `whole' when \s+ follows.      *)
WordGroup(t, whole) ==
    LET cs == Chars(t)
        n == PrefixLen(cs, WordChars)
    IN  IF n = 0 \/ (whole /\ n < Len(cs)) THEN [ok |-> FALSE, text |-> ""]
        ELSE [ok |-> TRUE, text |-> IF n = Len(cs) THEN t ELSE Text(SubSeq(cs, 1, n))]

NumberGroup(t, whole) ==
    LET cs == Chars(t)
        n == NumberLen(cs)
    IN  IF n = 0 \/ (whole /\ n < Len(cs)) THEN [ok |-> FALSE, text |-> ""]
        ELSE [ok |-> TRUE, text |-> IF n = Len(cs) THEN t ELSE Text(SubSeq(cs, 1, n))]

(* The patterns REBALANCE and AUTO_RESIZE_TO_100 end with the keyword, so  *)
(* the first token only has to begin with it.                              *)
BeginsWith(t, keyword) ==
    \/ Upper(t) = keyword
    \/ <<t, keyword>> \in {<<"REBALANCED", "REBALANCE">>,
                           <<"AUTO_RESIZE_TO_1000", "AUTO_RESIZE_TO_100">>}

NoMatch == [ok |-> FALSE, cmd_type |-> "", args |-> <<>>]

(* KEYWORD\s+(\w+)\s+(\d+(?:\.\d+)?) *)
MatchNameNumber(keyword, line) ==
    IF /\ Len(line) >= 3
       /\ Upper(line[1]) = keyword
       /\ WordGroup(line[2], TRUE).ok
       /\ NumberGroup(line[3], FALSE).ok
    THEN [ok |-> TRUE, cmd_type |-> keyword,
          args |-> <<WordGroup(line[2], TRUE).text, NumberGroup(line[3], FALSE).text>>]
    ELSE NoMatch

(* ADD_BUCKET has an optional third group (?:\s+(\d+(?:\.\d+)?))?  *)
MatchAddBucket(line) ==
    LET m == MatchNameNumber("ADD_BUCKET", line)
    IN  IF /\ m.ok
           /\ Len(line) >= 4
           /\ NumberGroup(line[3], TRUE).ok
           /\ NumberGroup(line[4], FALSE).ok
        THEN [m EXCEPT !.args = Append(m.args, NumberGroup(line[4], FALSE).text)]
        ELSE m

re_parse_command(line) ==
    IF line = <<>> THEN NoMatch
    ELSE IF /\ Len(line) >= 2
            /\ Upper(line[1]) = "SET_TOTAL_BUDGET"
            /\ NumberGroup(line[2], FALSE).ok
    THEN [ok |-> TRUE, cmd_type |-> "SET_TOTAL_BUDGET",
          args |-> <<NumberGroup(line[2], FALSE).text>>]
    ELSE IF MatchAddBucket(line).ok THEN MatchAddBucket(line)
    ELSE IF /\ Len(line) >= 2
            /\ Upper(line[1]) = "REMOVE_BUCKET"
            /\ WordGroup(line[2], FALSE).ok
    THEN [ok |-> TRUE, cmd_type |-> "REMOVE_BUCKET",
          args |-> <<WordGroup(line[2], FALSE).text>>]
    ELSE IF MatchNameNumber("RESIZE_BUCKET", line).ok
    THEN MatchNameNumber("RESIZE_BUCKET", line)
    ELSE IF MatchNameNumber("ADD_AMOUNT", line).ok
    THEN MatchNameNumber("ADD_AMOUNT", line)
    ELSE IF MatchNameNumber("SUBTRACT_AMOUNT", line).ok
    THEN MatchNameNumber("SUBTRACT_AMOUNT", line)
    ELSE IF BeginsWith(line[1], "REBALANCE")
    THEN [ok |-> TRUE, cmd_type |-> "REBALANCE", args |-> <<>>]
    ELSE IF BeginsWith(line[1], "AUTO_RESIZE_TO_100")
    THEN [ok |-> TRUE, cmd_type |-> "AUTO_RESIZE_TO_100", args |-> <<>>]
    ELSE NoMatch

(* ADD_BUCKET calls add_bucket whether or not the name exists; its         *)
(* ValueError on an existing name reaches `except ValueError'.             *)
re_cmd_add_bucket(b, tb, args) ==
    IF NameNumberFault(args) # "none" THEN Fault(b, tb, NameNumberFault(args))
    ELSE LET name == args[1]
             percentage == Float(args[2]).val
         IN  IF Len(args) > 2 /\ ~Float(args[3]).ok THEN InvalidArgument(b, tb)
             ELSE LET r == add_bucket(b, name, percentage)
                  IN  IF r.ret = "ValueError" THEN Handle(r.b, tb, "ValueError")
                      ELSE IF r.ret = "True"
                      THEN Out(r.b, tb, Msg("ok", "Added bucket", name, percentage))
                      ELSE Out(r.b, tb, Msg("fail", "Failed to add bucket", name, Zero))

re_cmd_add_amount(b, tb, args) ==
    IF NameNumberFault(args) # "none" THEN Fault(b, tb, NameNumberFault(args))
    ELSE LET name == args[1]
             amount == Float(args[2]).val
             r == add_amount_to_bucket(b, tb, name, amount)
         IN  IF r.ret = "True"
             THEN Out(r.b, tb, Msg("ok", "Added to bucket", name, amount))
             ELSE Out(r.b, tb, Msg("fail", "Failed to add amount to bucket", name, Zero))

re_cmd_subtract_amount(b, tb, args) ==
    IF NameNumberFault(args) # "none" THEN Fault(b, tb, NameNumberFault(args))
    ELSE LET name == args[1]
             amount == Float(args[2]).val
             r == subtract_amount_from_bucket(b, tb, name, amount)
         IN  IF r.ret = "True"
             THEN Out(r.b, tb, Msg("ok", "Subtracted from bucket", name, amount))
             ELSE Out(r.b, tb, Msg("fail", "Failed to subtract amount from bucket", name, Zero))

(* The branches for SET_TOTAL_BUDGET, REMOVE_BUCKET, RESIZE_BUCKET,        *)
(* REBALANCE and AUTO_RESIZE_TO_100 are the same statements in both files. *)
re_execute_command(b, tb, line) ==
    LET parsed == re_parse_command(line)
        t == parsed.cmd_type
        args == parsed.args
    IN  IF ~parsed.ok THEN Out(b, tb, Msg("", "Invalid command", "", Zero))
        ELSE CASE t = "SET_TOTAL_BUDGET" -> cmd_set_total_budget(b, tb, args)
               [] t = "ADD_BUCKET" -> re_cmd_add_bucket(b, tb, args)
               [] t = "REMOVE_BUCKET" -> cmd_remove_bucket(b, tb, args)
               [] t = "RESIZE_BUCKET" -> cmd_resize_bucket(b, tb, args)
               [] t = "ADD_AMOUNT" -> re_cmd_add_amount(b, tb, args)
               [] t = "SUBTRACT_AMOUNT" -> re_cmd_subtract_amount(b, tb, args)
               [] t = "REBALANCE" -> cmd_rebalance(b, tb, args)
               [] t = "AUTO_RESIZE_TO_100" -> cmd_auto_resize(b, tb, args)
               [] OTHER -> UnknownCommand(b, tb)

(* execute_command of the translator in use: "backend" is                  *)
(* backend/command_translator.py, "root" is src/command_translator.py.     *)
Execute(v, b, tb, line) ==
    IF v = "root" THEN re_execute_command(b, tb, line) ELSE execute_command(b, tb, line)

----------------------------------------------------------------------------
(* The lines a block is made of: every command with every name and       *)
(* number of the alphabet, and the malformed shapes (unknown or lower-case *)
(* keyword, missing arguments, non-numeric or fractional number).          *)
NameNumberKeywords == {"ADD_BUCKET", "RESIZE_BUCKET", "ADD_AMOUNT", "SUBTRACT_AMOUNT"}

Lines ==
    {<<>>, <<"NO_ACTION">>, <<"NO_ACTION", "food">>, <<"REBALANCE">>,
     <<"AUTO_RESIZE_TO_100">>, <<"FOO", "BAR">>, <<"add_bucket", "food", "30">>,
     <<"SET_TOTAL_BUDGET">>, <<"REMOVE_BUCKET">>, <<"SET_TOTAL_BUDGET", "abc">>,
     <<"RESIZE_BUCKET", "free", "0.005">>, <<"ADD_BUCKET", "rent", "120">>,
     <<"ADD_BUCKET", "x", "10">>, <<"AUTO_RESIZE_TO_1000">>}
    \cup {<<"SET_TOTAL_BUDGET", v>> : v \in NumTokens}
    \cup {<<"REMOVE_BUCKET", n>> : n \in NameTokens}
    \cup {<<k, n, v>> : k \in NameNumberKeywords, n \in NameTokens, v \in NumTokens}
    \cup {<<k>> : k \in NameNumberKeywords}
    \cup {<<k, "food">> : k \in NameNumberKeywords}
    \cup {<<k, "food", "abc">> : k \in NameNumberKeywords}

Ignored_blank_only(line) == line = <<>>

Ignored(line) == line = <<>> \/ line = <<"NO_ACTION">>

InitCmd ==
    /\ buckets = FreshBuckets
    /\ total_budget = Zero
    /\ last = [op |-> "init", name |-> "", arg |-> Zero, ret |-> "True",
               pre |-> FreshBuckets, pre_tb |-> Zero, line |-> <<>>, msg |-> NoMsg,
               mid |-> FreshBuckets, ret2 |-> "None", block |-> <<>>, out |-> <<>>]
    /\ steps = 0
    /\ results = <<>>
    /\ variant = "backend"
    /\ chat = NoChat

(* The same construction for the translator of src/command_translator.py. *)
InitRoot ==
    /\ buckets = FreshBuckets
    /\ total_budget = Zero
    /\ last = [op |-> "init", name |-> "", arg |-> Zero, ret |-> "True",
               pre |-> FreshBuckets, pre_tb |-> Zero, line |-> <<>>, msg |-> NoMsg,
               mid |-> FreshBuckets, ret2 |-> "None", block |-> <<>>, out |-> <<>>]
    /\ steps = 0
    /\ results = <<>>
    /\ variant = "root"
    /\ chat = NoChat

(* One iteration of the loop of __call__ over the lines of the block. *)
IgnoreLine ==
    \E line \in Lines :
        /\ steps < MaxLines
        /\ Ignored(line)
        /\ last' = [Call("ignore", "", Zero, "None") EXCEPT !.line = line]
        /\ steps' = steps + 1
        /\ UNCHANGED <<buckets, total_budget, results, variant, chat>>

ExecuteLine ==
    \E line \in Lines :
        /\ steps < MaxLines
        /\ ~Ignored(line)
        /\ \E r \in {Execute(variant, buckets, total_budget, line)} :
               /\ buckets' = r.b
               /\ total_budget' = r.tb
               /\ results' = IF r.msg.mark = "raised" THEN results
                             ELSE Append(results, r.msg.mark)
               /\ last' = [Call("execute_command", "", Zero,
                                IF r.msg.mark = "raised" THEN "raise" ELSE "None")
                             EXCEPT !.line = line, !.msg = r.msg]
        /\ steps' = steps + 1
        /\ UNCHANGED <<variant, chat>>

NextCmd ==
    \/ IgnoreLine
    \/ ExecuteLine

SpecCmd == InitCmd /\ [][NextCmd]_vars

(* Either translator. *)
SpecAny == (InitCmd \/ InitRoot) /\ [][NextCmd]_vars

(* __call__ as a whole: the loop over the lines of one block, collecting   *)
(* the result of every executed line.  An exception leaving                *)
(* execute_command would leave the loop and __call__ with it.              *)
RECURSIVE RunLines(_, _, _, _, _)
RunLines(v, b, tb, commands, out) ==
    IF commands = <<>> THEN [b |-> b, tb |-> tb, out |-> out, raised |-> FALSE]
    ELSE LET command == Head(commands)
         IN  IF Ignored(command) THEN RunLines(v, b, tb, Tail(commands), out)
             ELSE LET r == Execute(v, b, tb, command)
                  IN  IF r.msg.mark = "raised"
                      THEN [b |-> r.b, tb |-> r.tb, out |-> out, raised |-> TRUE]
                      ELSE RunLines(v, r.b, r.tb, Tail(commands), Append(out, r.msg))

translator_call(v, b, tb, block) == RunLines(v, b, tb, block, <<>>)

BlockLines ==
    {<<>>, <<"NO_ACTION">>, <<"FOO", "BAR">>, <<"REBALANCE">>,
     <<"SET_TOTAL_BUDGET", "10000">>, <<"SET_TOTAL_BUDGET", "150">>,
     <<"ADD_BUCKET", "x", "10">>, <<"ADD_BUCKET", "x">>,
     <<"RESIZE_BUCKET", "x", "30">>, <<"ADD_AMOUNT", "x", "150">>,
     <<"REMOVE_BUCKET", "x">>, <<"REMOVE_BUCKET", "free">>}

(* __call__ on a new translator, one iteration of its loop per step; the   *)
(* lines read so far are `block', the results collected so far `out', and  *)
(* `pre' stays the ledger the call started from.  The block has up to      *)
(* MaxLines lines.                                                         *)
CallStep ==
    /\ steps < MaxLines
    /\ last.ret # "raise"
    /\ \E command \in BlockLines :
          \E r \in {IF Ignored(command) THEN Out(buckets, total_budget, NoMsg)
                    ELSE Execute(variant, buckets, total_budget, command)} :
              /\ buckets' = r.b
              /\ total_budget' = r.tb
              /\ results' = IF Ignored(command) \/ r.msg.mark = "raised" THEN results
                            ELSE Append(results, r.msg.mark)
              /\ last' = [op |-> "__call__", name |-> "", arg |-> Zero,
                          ret |-> IF r.msg.mark = "raised" THEN "raise" ELSE "str",
                          pre |-> last.pre, pre_tb |-> last.pre_tb,
                          line |-> command, msg |-> r.msg,
                          mid |-> buckets, ret2 |-> "None",
                          block |-> Append(last.block, command),
                          out |-> IF Ignored(command) \/ r.msg.mark = "raised" THEN last.out
                                  ELSE Append(last.out, r.msg)]
    /\ steps' = steps + 1
    /\ UNCHANGED <<variant, chat>>

NextCall == CallStep

SpecCall == (InitCmd \/ InitRoot) /\ [][NextCall]_vars

(* Every way to a ledger state: direct calls of the public methods on a    *)
(* BucketManager, or command blocks given to either translator.            *)
NextLedger ==
    \/ variant = "none" /\ Next
    \/ variant # "none" /\ NextCall

SpecLedger == (Init \/ InitCmd \/ InitRoot) /\ [][NextLedger]_vars

----------------------------------------------------------------------------
(* The chat views of budgeting_app.  The process starts with no           *)
(* user_client; every UserClient builds its own free-form translator and  *)
(* with it a fresh ledger, which `buckets' and `total_budget' hold.       *)
InitChat ==
    /\ buckets = FreshBuckets
    /\ total_budget = Zero
    /\ last = [op |-> "init", name |-> "", arg |-> Zero, ret |-> "True",
               pre |-> FreshBuckets, pre_tb |-> Zero, line |-> <<>>, msg |-> NoMsg,
               mid |-> FreshBuckets, ret2 |-> "None", block |-> <<>>, out |-> <<>>]
    /\ steps = 0
    /\ results = <<>>
    /\ variant = "backend"
    /\ chat = NoChat

(* ChatSession() always returns the one instance of the process;          *)
(* get_user_client builds a UserClient only while there is none.          *)
get_user_client(c, b, tb) ==
    IF c.user_client = "None" THEN [b |-> FreshBuckets, tb |-> Zero]
    ELSE [b |-> b, tb |-> tb]

(* start_conversation, requested by session s: the instance gets a new    *)
(* UserClient, whatever it held before.                                   *)
StartConversation(s) ==
    /\ steps < MaxOps
    /\ buckets' = FreshBuckets
    /\ total_budget' = Zero
    /\ results' = <<>>
    /\ chat' = [user_client |-> "UserClient",
                own |-> [chat.own EXCEPT ![s] = <<FreshBuckets, Zero>>]]
    /\ last' = [op |-> "start_conversation", name |-> s, arg |-> Zero, ret |-> "200",
                pre |-> buckets, pre_tb |-> total_budget, line |-> <<>>, msg |-> NoMsg,
                mid |-> buckets, ret2 |-> "None", block |-> <<>>, out |-> <<>>]
    /\ steps' = steps + 1
    /\ UNCHANGED variant

(* send_message with a non-empty message, requested by session s: the     *)
(* user_client of the instance runs the command block the backend model   *)
(* replied with on its ledger: here a block of one line, so one iteration *)
(* of the loop of __call__.                                               *)
SendMessage(s) ==
    /\ steps < MaxOps
    /\ \E command \in BlockLines :
          \E uc \in {get_user_client(chat, buckets, total_budget)} :
              \E r \in {IF Ignored(command) THEN Out(uc.b, uc.tb, NoMsg)
                        ELSE Execute("backend", uc.b, uc.tb, command)} :
                  /\ buckets' = r.b
                  /\ total_budget' = r.tb
                  /\ results' = IF Ignored(command) \/ r.msg.mark = "raised" THEN results
                                ELSE Append(results, r.msg.mark)
                  /\ chat' = [user_client |-> "UserClient",
                              own |-> [chat.own EXCEPT ![s] = <<r.b, r.tb>>]]
                  /\ last' = [op |-> "send_message", name |-> s, arg |-> Zero,
                              ret |-> IF r.msg.mark = "raised" THEN "500" ELSE "200",
                              pre |-> uc.b, pre_tb |-> uc.tb,
                              line |-> command, msg |-> r.msg,
                              mid |-> uc.b, ret2 |-> "None",
                              block |-> <<command>>,
                              out |-> IF Ignored(command) \/ r.msg.mark = "raised" THEN <<>>
                                      ELSE <<r.msg>>]
    /\ steps' = steps + 1
    /\ UNCHANGED variant

NextChat == \E s \in SessionIds : StartConversation(s) \/ SendMessage(s)

SpecChat == InitChat /\ [][NextChat]_vars

----------------------------------------------------------------------------
(* Properties of the ledger.                                               *)

Total == get_total_percentage(buckets)

LedgerUnchanged == buckets = last.pre /\ total_budget = last.pre_tb

OthersUnchanged(S) ==
    \A k \in (DOMAIN last.pre) \ S : k \in DOMAIN buckets /\ buckets[k] = last.pre[k]

AmountOp == last.op \in {"add_amount_to_bucket", "subtract_amount_from_bucket"}

(* The signed dollar amount of the last add/subtract call. *)
SignedAmount == IF last.op = "subtract_amount_from_bucket" THEN RNeg(last.arg) ELSE last.arg

(* The percentage points the signed amount is worth: amount / total_budget * 100. *)
Points == RMul(RDiv(SignedAmount, last.pre_tb), Hundred)

AmountApplies ==
    /\ AmountOp
    /\ last.name \in DOMAIN last.pre
    /\ RGt(last.pre_tb, Zero)

(* The call would take the bucket's dollar value below zero. *)
DollarsBelowZero ==
    /\ AmountApplies
    /\ RLt(RAdd(last.pre[last.name], Points), Zero)

(* C1: after any sequence of calls of the public methods on a fresh       *)
(* BucketManager, get_total_percentage() is at most 100 + 0.01.           *)
C1_Ceiling == RLe(Total, RAdd(Hundred, Tolerance))

(* Every percentage of the ledger lies in [0, 100]. *)
SaneNow == \A k \in DOMAIN buckets : RLe(Zero, buckets[k]) /\ RLe(buckets[k], Hundred)

(* C2: after any sequence of add_bucket, resize_bucket and remove_bucket  *)
(* calls, whenever 'free' exists is_percentage_valid() is true (taken on  *)
(* the ledgers whose percentages all lie in [0, 100]).                    *)
C2_Exactly100 == (Has(buckets, "free") /\ SaneNow) => is_percentage_valid(buckets)

(* C3: after any block of command lines run through the interpreter on a  *)
(* fresh ledger, every bucket's percentage lies in [0, 100].              *)
C3_Range == \A k \in DOMAIN buckets : ~RLt(buckets[k], Zero) /\ ~RGt(buckets[k], Hundred)

(* C4: add_bucket of an absent name with percentage p >= 0, while 'free'  *)
(* exists, returns True, stores min(p, free) and takes it from 'free'.    *)
C4_AddNeverFails ==
    ( /\ last.op = "add_bucket"
      /\ last.name \notin DOMAIN last.pre
      /\ "free" \in DOMAIN last.pre
      /\ RLe(Zero, last.arg) )
    => LET given == RMin(last.arg, last.pre["free"])
       IN  /\ last.ret = "True"
           /\ Has(buckets, last.name)
           /\ buckets[last.name] = given
           /\ buckets["free"] = RSub(last.pre["free"], given)

(* C5: remove_bucket('free') fails and changes nothing; remove_bucket of  *)
(* another existing name deletes it, adds its percentage to 'free' and    *)
(* leaves every other bucket alone; remove_bucket of an absent name fails *)
(* and changes nothing.                                                   *)
C5_RemoveBucket ==
    last.op = "remove_bucket" =>
        IF last.name = "free" \/ last.name \notin DOMAIN last.pre
        THEN last.ret = "False" /\ LedgerUnchanged
        ELSE /\ last.ret = "True"
             /\ DOMAIN buckets = (DOMAIN last.pre) \ {last.name}
             /\ buckets["free"] = RAdd(last.pre["free"], last.pre[last.name])
             /\ OthersUnchanged({"free", last.name})
             /\ total_budget = last.pre_tb

C5_Witness ==
    /\ last.op = "remove_bucket"
    /\ last.name = "food"
    /\ last.ret = "True"
    /\ last.pre["food"] # Zero
    /\ Has(buckets, "rent")

(* C6: whenever resize_bucket fails (missing name, or infeasible even     *)
(* after 'free' was tentatively set to zero) the ledger after the call    *)
(* equals the ledger before it.                                           *)
C6_ResizeAtomic ==
    (last.op = "resize_bucket" /\ last.ret # "True") => LedgerUnchanged

C6_Witness ==
    /\ last.op = "resize_bucket"
    /\ last.ret = "False"
    /\ Has(last.pre, "free")
    /\ RGt(last.pre["free"], Zero)
    /\ last.name # "free"

(* Every percentage of the ledger before the last call lies in [0, 100]. *)
SaneBefore ==
    \A k \in DOMAIN last.pre : RLe(Zero, last.pre[k]) /\ RLe(last.pre[k], Hundred)

(* C7 as stated (taken on a ledger whose percentages all lie in [0, 100]): *)
(* add_amount_to_bucket on a non-'free' bucket with total_budget > 0       *)
(* changes the target by exactly amount/total_budget*100 on success and    *)
(* 'free' by the opposite, and fails without modification when 'free'      *)
(* would go below -0.01.                                                   *)
C7_Original ==
    ( /\ last.op = "add_amount_to_bucket"
      /\ AmountApplies
      /\ SaneBefore
      /\ last.name # "free" )
    => LET free_new == RSub(last.pre["free"], Points)
       IN  /\ last.ret = "True" =>
                /\ buckets[last.name] = RAdd(last.pre[last.name], Points)
                /\ buckets["free"] = free_new
                /\ Total = get_total_percentage(last.pre)
           /\ RLt(free_new, RNeg(Tolerance)) => (last.ret = "False" /\ LedgerUnchanged)

(* C7 amended: the target becomes max(0, old + amount/total_budget*100);  *)
(* with delta the target's actual change, the call fails and modifies     *)
(* nothing when free - delta < -0.01, and otherwise succeeds with 'free'  *)
(* set to max(0, free - delta), every other bucket unchanged.             *)
C7_Amended ==
    ( /\ last.op = "add_amount_to_bucket"
      /\ AmountApplies
      /\ last.name # "free" )
    => LET new_pct == RMax(Zero, RAdd(last.pre[last.name], Points))
           free_new == RSub(last.pre["free"], RSub(new_pct, last.pre[last.name]))
       IN  IF RLt(free_new, RNeg(Tolerance))
           THEN last.ret = "False" /\ LedgerUnchanged
           ELSE /\ last.ret = "True"
                /\ DOMAIN buckets = DOMAIN last.pre
                /\ buckets[last.name] = new_pct
                /\ buckets["free"] = RMax(free_new, Zero)
                /\ OthersUnchanged({"free", last.name})
                /\ total_budget = last.pre_tb

(* A successful call whose mirrored 'free' fell inside the tolerance band. *)
C7_Witness ==
    /\ last.op = "add_amount_to_bucket"
    /\ AmountApplies
    /\ last.name # "free"
    /\ last.ret = "True"
    /\ RLt(RSub(last.pre["free"], Points), Zero)
    /\ buckets[last.name] = RAdd(last.pre[last.name], Points)

(* C8: add_amount_to_bucket and subtract_amount_from_bucket fail and      *)
(* leave the ledger unchanged when the bucket is absent or                *)
(* total_budget <= 0.                                                     *)
C8_AmountGuards ==
    ( /\ AmountOp
      /\ \/ last.name \notin DOMAIN last.pre
         \/ RLe(last.pre_tb, Zero) )
    => (last.ret = "False" /\ LedgerUnchanged)

C8_Witness ==
    /\ last.op = "subtract_amount_from_bucket"
    /\ last.name \in DOMAIN last.pre
    /\ RLt(last.pre_tb, Zero)
    /\ last.ret = "False"

(* C9 as stated: when an add/subtract call would take the bucket's dollar *)
(* value below zero, the bucket ends at exactly 0 and the released share  *)
(* goes to 'free'.                                                        *)
C9_Original ==
    DollarsBelowZero =>
        /\ buckets[last.name] = Zero
        /\ last.name # "free" =>
               buckets["free"] = RAdd(last.pre["free"], last.pre[last.name])

(* C9 amended: when such a call succeeds the bucket ends at exactly 0     *)
(* and, for a bucket other than 'free', 'free' becomes                    *)
(* max(0, free + old percentage); when it fails the ledger is unchanged.  *)
C9_Amended ==
    DollarsBelowZero =>
        IF last.ret = "True"
        THEN /\ buckets[last.name] = Zero
             /\ last.name # "free" =>
                    buckets["free"] =
                        RMax(Zero, RAdd(last.pre["free"], last.pre[last.name]))
        ELSE LedgerUnchanged

C9_Witness ==
    /\ DollarsBelowZero
    /\ last.op = "subtract_amount_from_bucket"
    /\ last.name # "free"
    /\ last.ret = "True"
    /\ RGt(last.pre[last.name], Zero)
    /\ buckets[last.name] = Zero

(* C10: add_amount_to_bucket on 'free' succeeds only if the total with    *)
(* free's new percentage is within 0.01 of 100; otherwise it fails and    *)
(* 'free' keeps its percentage.                                           *)
C10_FreeTarget ==
    ( /\ last.op = "add_amount_to_bucket"
      /\ AmountApplies
      /\ last.name = "free" )
    => LET new_pct == RMax(Zero, RAdd(last.pre["free"], Points))
           proposed == RAdd(RSub(get_total_percentage(last.pre), last.pre["free"]), new_pct)
           within == RLe(RAbs(RSub(proposed, Hundred)), Tolerance)
       IN  /\ last.ret = "True" =>
                (within /\ buckets = Put(last.pre, "free", new_pct))
           /\ ~within => (last.ret = "False" /\ LedgerUnchanged)

C10_Witness ==
    /\ last.op = "add_amount_to_bucket"
    /\ AmountApplies
    /\ last.name = "free"
    /\ last.ret = "True"
    /\ buckets["free"] # last.pre["free"]

(* The ledger before the last call summed over the buckets other than 'rent'. *)
OtherTotalBefore == SumOver(last.pre, (DOMAIN last.pre) \ {"rent"})

C12_RemoveAddTotal ==
    last.op = "remove_then_add" =>
        RLe(RAbs(RSub(Total, get_total_percentage(last.pre))), Tolerance)

C12_Witness ==
    /\ last.op = "remove_then_add"
    /\ last.ret = "True"
    /\ last.ret2 = "True"
    /\ last.arg # Zero
    /\ ~Has(last.mid, last.name)
    /\ Has(buckets, last.name)

(* C13: when some bucket other than 'rent' has a non-zero percentage,     *)
(* auto_resize_to_100_percent returns True, leaves 'rent' unchanged,      *)
(* multiplies every other bucket by one common factor and makes the total *)
(* 100 within tolerance.                                                  *)
C13_RentExempt ==
    ( /\ last.op = "auto_resize_to_100_percent"
      /\ \E k \in (DOMAIN last.pre) \ {"rent"} : last.pre[k] # Zero )
    => /\ last.ret = "True"
       /\ DOMAIN buckets = DOMAIN last.pre
       /\ Has(last.pre, "rent") => buckets["rent"] = last.pre["rent"]
       /\ LET k0 == CHOOSE k \in (DOMAIN last.pre) \ {"rent"} : last.pre[k] # Zero
              factor == RDiv(buckets[k0], last.pre[k0])
          IN  \A k \in (DOMAIN last.pre) \ {"rent"} : buckets[k] = RMul(last.pre[k], factor)
       /\ RLe(RAbs(RSub(Total, Hundred)), Tolerance)

C14_NonNegative ==
    ( /\ last.op = "execute_command"
      /\ last.line = <<"AUTO_RESIZE_TO_100">>
      /\ \A k \in DOMAIN last.pre : RLe(Zero, last.pre[k]) )
    => \A k \in DOMAIN buckets : RLe(Zero, buckets[k])

----------------------------------------------------------------------------
(* Properties of the Command Interpreter.                                  *)

KnownKeywords ==
    {"SET_TOTAL_BUDGET", "ADD_BUCKET", "REMOVE_BUCKET", "RESIZE_BUCKET",
     "ADD_AMOUNT", "SUBTRACT_AMOUNT", "REBALANCE", "AUTO_RESIZE_TO_100"}

(* A line that is neither blank nor NO_ACTION. *)
NotSkipped(line) == line # <<>> /\ line # <<"NO_ACTION">>

(* The indices of the lines among the first n that are not skipped, in    *)
(* input order.                                                           *)
RECURSIVE ExecutedIdx(_, _)
ExecutedIdx(block, n) ==
    IF n = 0 THEN <<>>
    ELSE IF NotSkipped(block[n]) THEN Append(ExecutedIdx(block, n - 1), n)
    ELSE ExecutedIdx(block, n - 1)

(* The ledger after the first n lines of the block of the last call have  *)
(* been applied one after the other, starting from the ledger before it.  *)
RECURSIVE LedgerAfter(_)
LedgerAfter(n) ==
    IF n = 0 THEN [b |-> last.pre, tb |-> last.pre_tb]
    ELSE LET s == LedgerAfter(n - 1)
         IN  IF NotSkipped(last.block[n])
             THEN LET r == Execute(variant, s.b, s.tb, last.block[n])
                  IN  [b |-> r.b, tb |-> r.tb]
             ELSE s

RemoveAt(seq, i) == SubSeq(seq, 1, i - 1) \o SubSeq(seq, i + 1, Len(seq))

(* A result that reports the command itself as invalid: no success or     *)
(* failure mark, text "Invalid command: ..." or "Unknown command type".   *)
InvalidCommandResult(m) ==
    m.mark = "" /\ m.text \in {"Invalid command", "Unknown command type"}

(* C16: __call__ applies the lines in input order; the returned text has  *)
(* one result per line that is neither blank nor NO_ACTION, in the same   *)
(* order; blank and NO_ACTION lines give no output and change nothing.    *)
C16_OrderAndCardinality ==
    last.op = "__call__" =>
        LET idx == ExecutedIdx(last.block, Len(last.block))
        IN  /\ Len(last.out) = Len(idx)
            /\ \A j \in 1..Len(idx) :
                   LET s == LedgerAfter(idx[j] - 1)
                   IN  last.out[j] = Execute(variant, s.b, s.tb, last.block[idx[j]]).msg
            /\ buckets = LedgerAfter(Len(last.block)).b
            /\ total_budget = LedgerAfter(Len(last.block)).tb

C16_Witness ==
    /\ last.op = "__call__"
    /\ Len(last.block) = 3
    /\ last.block[1] = <<"RESIZE_BUCKET", "x", "30">>
    /\ last.block[2] = <<"NO_ACTION">>
    /\ last.block[3] = <<"ADD_BUCKET", "x", "10">>
    /\ Len(last.out) = 2
    /\ last.out[1].text = "Invalid argument"
    /\ last.out[2].text = "Added bucket"
    /\ Has(buckets, "x")

(* C17 (free-form interpreter): a line whose first token is no known      *)
(* keyword gives an invalid-command result for that line only: the ledger *)
(* and the other results are those of the block without the line.  The    *)
(* block 'FOO BAR', 'ADD_BUCKET x 10' on a fresh ledger gives exactly two *)
(* results, invalid command then success.                                 *)
C17_UnparseableLine ==
    (last.op = "__call__" /\ variant = "backend") =>
        /\ \A i \in 1..Len(last.block) :
               (NotSkipped(last.block[i]) /\ Upper(last.block[i][1]) \notin KnownKeywords) =>
                   LET rest == translator_call(variant, last.pre, last.pre_tb,
                                               RemoveAt(last.block, i))
                       pos == Len(ExecutedIdx(last.block, i))
                   IN  /\ last.ret = "str"
                       /\ Len(last.out) >= pos
                       /\ InvalidCommandResult(last.out[pos])
                       /\ RemoveAt(last.out, pos) = rest.out
                       /\ buckets = rest.b
                       /\ total_budget = rest.tb
        /\ last.block = <<(<<"FOO", "BAR">>), (<<"ADD_BUCKET", "x", "10">>)>> =>
               /\ Len(last.out) = 2
               /\ InvalidCommandResult(last.out[1])
               /\ last.out[2].mark = "ok"
               /\ buckets = Put(Put(FreshBuckets, "free", R(90, 1)), "x", R(10, 1))

C17_Witness ==
    /\ last.op = "__call__"
    /\ variant = "backend"
    /\ last.block = <<(<<"FOO", "BAR">>), (<<"ADD_BUCKET", "x", "10">>)>>
    /\ Len(last.out) = 2
    /\ last.out[1].text = "Unknown command type"
    /\ last.out[2].text = "Added bucket"

(* The line lacks a required argument or carries a number float() rejects. *)
ArgumentError(line) ==
    LET k == Upper(line[1])
    IN  \/ k \in NameNumberKeywords /\ (Len(line) < 3 \/ ~Float(line[3]).ok)
        \/ k = "SET_TOTAL_BUDGET" /\ (Len(line) < 2 \/ ~Float(line[2]).ok)
        \/ k = "REMOVE_BUCKET" /\ Len(line) < 2

(* C18: a line with a recognized keyword whose numeric argument fails     *)
(* conversion or whose required arguments are missing gives an            *)
(* 'invalid argument' result and leaves the ledger unchanged.             *)
C18_ArgumentErrors ==
    ( /\ last.op = "execute_command"
      /\ last.line # <<>>
      /\ ArgumentError(last.line) )
    => /\ last.msg.text = "Invalid argument"
       /\ LedgerUnchanged

(* C19: __call__ returns its result text and lets no exception out, in    *)
(* either translator: every line that is not skipped gives a result line. *)
(* A duplicate ADD_BUCKET in the fixed-grammar translator and a           *)
(* RESIZE_BUCKET of a missing name are rendered "Invalid argument",       *)
(* REBALANCE (the missing rebalance_buckets) "Error executing command".   *)
C19_NoFaultEscapes ==
    last.op = "__call__" =>
        LET idx == ExecutedIdx(last.block, Len(last.block))
        IN  /\ last.ret = "str"
            /\ Len(last.out) = Len(idx)
            /\ \A j \in 1..Len(idx) :
                   LET line == last.block[idx[j]]
                       before == LedgerAfter(idx[j] - 1).b
                       parsed == IF variant = "root" THEN re_parse_command(line)
                                 ELSE parse_command(line)
                       numbered == Len(parsed.args) >= 2 /\ Float(parsed.args[2]).ok
                   IN  /\ last.out[j].mark \in {"ok", "fail", ""}
                       /\ last.out[j].text # ""
                       /\ ( /\ variant = "root"
                            /\ parsed.cmd_type = "ADD_BUCKET"
                            /\ Has(before, parsed.args[1]) )
                          => last.out[j].text = "Invalid argument"
                       /\ ( /\ parsed.cmd_type = "RESIZE_BUCKET"
                            /\ numbered
                            /\ ~Has(before, parsed.args[1]) )
                          => last.out[j].text = "Invalid argument"
                       /\ parsed.cmd_type = "REBALANCE"
                          => last.out[j].text = "Error executing command"

C19_Witness ==
    /\ last.op = "__call__"
    /\ variant = "root"
    /\ last.ret = "str"
    /\ last.block = <<(<<"ADD_BUCKET", "x", "10">>), (<<"ADD_BUCKET", "x", "10">>),
                      (<<"REBALANCE">>)>>
    /\ Len(last.out) = 3
    /\ last.out[1].text = "Added bucket"
    /\ last.out[2].text = "Invalid argument"
    /\ last.out[3].text = "Error executing command"

(* C20: in each translator, ADD_BUCKET name p on an existing name leaves  *)
(* the ledger that RESIZE_BUCKET name p leaves.                           *)
C20_AddIsResize ==
    ( /\ last.op = "execute_command"
      /\ Len(last.line) = 3
      /\ last.line[1] = "ADD_BUCKET"
      /\ Has(last.pre, last.line[2])
      /\ Float(last.line[3]).ok )
    => LET resized == Execute(variant, last.pre, last.pre_tb,
                              <<"RESIZE_BUCKET", last.line[2], last.line[3]>>)
       IN  buckets = resized.b /\ total_budget = resized.tb

(* The last line was ADD_AMOUNT or SUBTRACT_AMOUNT with a name and a       *)
(* number float() accepts, executed by the free-form translator.           *)
AmountLine ==
    /\ last.op = "execute_command"
    /\ variant = "backend"
    /\ Len(last.line) >= 3
    /\ Upper(last.line[1]) \in {"ADD_AMOUNT", "SUBTRACT_AMOUNT"}
    /\ Float(last.line[3]).ok

(* C21: ADD_AMOUNT / SUBTRACT_AMOUNT on an absent name first creates the  *)
(* bucket at 0% and then applies the amount: the bucket exists afterwards *)
(* and the line ends as it would have on the same ledger with the bucket  *)
(* already there at 0%; an ADD_AMOUNT that succeeds leaves the bucket at  *)
(* amount / total_budget * 100.                                           *)
C21_AutoCreate ==
    (AmountLine /\ ~Has(last.pre, last.line[2])) =>
        LET name == last.line[2]
            there == Execute(variant, Put(last.pre, name, Zero), last.pre_tb, last.line)
        IN  /\ Has(buckets, name)
            /\ buckets = there.b
            /\ last.msg.mark = there.msg.mark
            /\ (Upper(last.line[1]) = "ADD_AMOUNT" /\ last.msg.mark = "ok"
                   /\ RLe(Zero, Float(last.line[3]).val))
               => buckets[name] =
                      RMul(RDiv(Float(last.line[3]).val, last.pre_tb), Hundred)

(* C22: a line whose result reports failure leaves the set of bucket      *)
(* names, every percentage and total_budget as they were.                 *)
C22_FailedLineNoOp ==
    (last.op = "execute_command" /\ last.msg.mark = "fail") => LedgerUnchanged

(* C23: the line REBALANCE leaves every percentage and total_budget       *)
(* unchanged and its result reports success.                              *)
C23_RebalanceNoOp ==
    (last.op = "execute_command" /\ last.line = <<"REBALANCE">>) =>
        (LedgerUnchanged /\ last.msg.mark = "ok")

(* C24: total_budget is never negative after any block of command lines   *)
(* run on a fresh ledger.                                                 *)
C24_BudgetNonNegative == variant # "none" => RLe(Zero, total_budget)

(* C25: two chat sessions served by one process each own a ledger: the    *)
(* ledger a session finds is the one its own last request left, whatever  *)
(* blocks were run and conversations started for the other session.       *)
C25_SessionIsolation ==
    \A s \in SessionIds :
        chat.own[s] # <<>> => chat.own[s] = <<buckets, total_budget>>

(* C26: the 'free' bucket is present in every ledger state reached from a *)
(* fresh BucketManager by the public methods or by command blocks, so no  *)
(* method is ever entered on a ledger without 'free' or without buckets.  *)
C26_FreePresent ==
    /\ Has(buckets, "free")
    /\ Has(last.pre, "free")
    /\ Has(last.mid, "free")

(* remove_bucket('free') and the line REMOVE_BUCKET free were tried and   *)
(* refused.                                                               *)
C26_Witness ==
    /\ Has(buckets, "free")
    /\ \/ last.op = "remove_bucket" /\ last.name = "free" /\ last.ret = "False"
       \/ /\ last.op = "__call__"
          /\ last.line = <<"REMOVE_BUCKET", "free">>
          /\ last.msg.mark = "fail"

(* C27: resize_bucket('free', p) returns True only if the percentages of  *)
(* all other buckets plus p are at most 100; on a fresh ledger            *)
(* resize_bucket('free', 150) returns False and 'free' stays at 100.      *)
C27_FreeCeiling ==
    (last.op = "resize_bucket" /\ last.name = "free" /\ last.ret = "True") =>
        RLe(RAdd(SumOver(last.pre, (DOMAIN last.pre) \ {"free"}), last.arg),
            RAdd(Hundred, TinyTolerance))

(* C28: when the result of a line is "Added bucket '<name>' with <p>%     *)
(* allocation", the ledger holds <name> with percentage exactly p.        *)
C28_AddedMessage ==
    (last.op = "execute_command" /\ last.msg.text = "Added bucket") =>
        /\ Has(buckets, last.msg.name)
        /\ buckets[last.msg.name] = last.msg.num

(* The line is, token for token, an instance of one fixed-grammar         *)
(* pattern: the keyword, then exactly the groups of the pattern.          *)
FullyMatches(line) ==
    /\ line # <<>>
    /\ LET m == re_parse_command(line)
       IN  /\ m.ok
           /\ Upper(line[1]) = m.cmd_type
           /\ Len(line) = 1 + Len(m.args)
           /\ \A i \in 1..Len(m.args) : m.args[i] = line[i + 1]

OtherVariant == IF variant = "root" THEN "backend" ELSE "root"

MarksOf(out) == [i \in 1..Len(out) |-> out[i].mark]

(* C29: a block whose lines all fully match the fixed grammar, run on a   *)
(* fresh ledger, ends in the same ledger and with the same success or     *)
(* failure for every line on either translator.                           *)
C29_VariantsAgree ==
    (/\ last.op = "__call__"
     /\ \A i \in 1..Len(last.block) : FullyMatches(last.block[i])) =>
        LET other == translator_call(OtherVariant, last.pre, last.pre_tb, last.block)
        IN  /\ buckets = other.b
            /\ total_budget = other.tb
            /\ MarksOf(last.out) = MarksOf(other.out)

(* C30: calling auto_resize_to_100_percent twice in a row leaves the same *)
(* buckets, each percentage within tolerance, and returns the same value  *)
(* as calling it once.                                                    *)
C30_AutoResizeIdempotent ==
    last.op = "auto_resize_twice" =>
        /\ DOMAIN buckets = DOMAIN last.mid
        /\ \A k \in DOMAIN buckets :
              RLe(RAbs(RSub(buckets[k], last.mid[k])), Tolerance)
        /\ last.ret2 = last.ret

(* The first of the two calls rescaled the non-rent buckets.              *)
C30_Witness ==
    /\ last.op = "auto_resize_twice"
    /\ last.ret = "True"
    /\ last.mid # last.pre
    /\ buckets = last.mid

====
